---- MODULE Spec2Model ----
(***************************************************************************)
(* Model of the client side router of olefjaerestad/router                 *)
(* (src/src/router.ts, lines 1-180: foreachAsyncCall and class Router).    *)
(*                                                                         *)
(* A JavaScript string is a sequence of one-character strings, so that     *)
(* split, replace, indexOf, isNaN and parseInt are computed as the code    *)
(* computes them.                                                          *)
(***************************************************************************)
EXTENDS Integers, Sequences, FiniteSets, TLC

(* ----------------------------- bounds --------------------------------- *)
\* Number of calls of foreachAsyncCall that are in flight at once.
MaxRuns == 2
\* Number of Router instances constructed in the page.
MaxRouters == 2

(* ------------------------ strings of the program ---------------------- *)
EmptyStr == << >>
Slash == "/"
Digits == {"0", "1", "2"}
DigitVal(c) == CASE c = "0" -> 0 [] c = "1" -> 1 [] c = "2" -> 2 [] OTHER -> 0

\* s.split('/'): the pieces between the separators; '' gives [''].
RECURSIVE SplitFrom(_, _, _)
SplitFrom(s, i, cur) ==
    IF i > Len(s) THEN << cur >>
    ELSE IF s[i] = Slash THEN << cur >> \o SplitFrom(s, i + 1, << >>)
    ELSE SplitFrom(s, i + 1, Append(cur, s[i]))
Split(s) == SplitFrom(s, 1, << >>)

\* a.slice(1)
Slice1(a) == IF Len(a) = 0 THEN << >> ELSE Tail(a)

\* a.indexOf(x), zero based, -1 when absent.
RECURSIVE IndexFrom(_, _, _)
IndexFrom(a, x, i) ==
    IF i > Len(a) THEN -1
    ELSE IF a[i] = x THEN i - 1
    ELSE IndexFrom(a, x, i + 1)
IndexOf(a, x) == IndexFrom(a, x, 1)

\* a[i] of JavaScript, zero based: "undefined" outside the array.
Undefined == [t |-> "undefined", s |-> << >>, n |-> 0]
StrVal(s) == [t |-> "string", s |-> s, n |-> 0]
NumVal(n) == [t |-> "number", s |-> << >>, n |-> n]
NaNVal == [t |-> "NaN", s |-> << >>, n |-> 0]
At(a, i) == IF i >= 0 /\ i < Len(a) THEN StrVal(a[i + 1]) ELSE Undefined

\* Does needle occur in s at (one based) position i.
OccursAt(s, needle, i) ==
    /\ i + Len(needle) - 1 <= Len(s)
    /\ \A k \in 1..Len(needle) : s[i + k - 1] = needle[k]

\* s.replace(needle, ''): the first occurrence of a string needle removed.
Replace(s, needle) ==
    IF Len(needle) = 0 THEN s
    ELSE LET hits == {i \in 1..Len(s) : OccursAt(s, needle, i)}
         IN IF hits = {} THEN s
            ELSE LET i == CHOOSE h \in hits : \A g \in hits : h <= g
                 IN SubSeq(s, 1, i - 1) \o SubSeq(s, i + Len(needle), Len(s))

(* ------------------------ isNaN and parseInt -------------------------- *)
AllDigits(s) == \A k \in 1..Len(s) : s[k] \in Digits

\* Number(s) is not NaN, for strings of letters, digits and ".": the
\* StringNumericLiteral grammar (the empty string converts to 0, digits with
\* an optional fraction, a fraction alone).
IsNumericString(s) ==
    \/ Len(s) = 0
    \/ Len(s) > 0 /\ AllDigits(s)
    \/ \E d \in 1..Len(s) :
          /\ s[d] = "."
          /\ AllDigits(SubSeq(s, 1, d - 1))
          /\ AllDigits(SubSeq(s, d + 1, Len(s)))
          /\ Len(s) > 1

\* isNaN(value): undefined converts to NaN, a string is converted by Number.
IsNaN(v) ==
    CASE v.t = "undefined" -> TRUE
      [] v.t = "NaN" -> TRUE
      [] v.t = "number" -> FALSE
      [] OTHER -> ~IsNumericString(v.s)

\* The leading digits of s.
RECURSIVE LeadingDigits(_)
LeadingDigits(s) ==
    IF Len(s) = 0 \/ s[1] \notin Digits THEN << >>
    ELSE << s[1] >> \o LeadingDigits(Tail(s))

RECURSIVE DecimalValue(_)
DecimalValue(ds) ==
    IF Len(ds) = 0 THEN 0
    ELSE 10 * DecimalValue(SubSeq(ds, 1, Len(ds) - 1)) + DigitVal(ds[Len(ds)])

\* parseInt(s): the integer of the leading digits, NaN when there are none.
ParseInt(v) ==
    IF v.t # "string" THEN (IF v.t = "number" THEN v ELSE NaNVal)
    ELSE LET ds == LeadingDigits(v.s)
         IN IF Len(ds) = 0 THEN NaNVal ELSE NumVal(DecimalValue(ds))

(* ------------------- the path pattern compiler ------------------------ *)
\* pathToRegexp(pattern, keys) of ./path-to-regexp, for patterns that are ''
\* or '/'-led segments, a segment being a literal or ':name' with an optional
\* modifier '?', '+' or '*'.
Modifiers == {"?", "+", "*"}
DefaultParamPattern == << "[", "^", "\\", "/", "]", "+", "?" >>

PatternSegments(pattern) == Slice1(Split(pattern))

Token(seg) ==
    IF Len(seg) > 0 /\ seg[1] = ":"
    THEN LET m == IF seg[Len(seg)] \in Modifiers THEN seg[Len(seg)] ELSE ""
             nm == IF m = "" THEN Tail(seg) ELSE SubSeq(seg, 2, Len(seg) - 1)
         IN [kind |-> "param", text |-> nm, modifier |-> m]
    ELSE [kind |-> "literal", text |-> seg, modifier |-> ""]

Tokens(pattern) ==
    LET segs == PatternSegments(pattern)
    IN [k \in 1..Len(segs) |-> Token(segs[k])]

\* The keys array pathToRegexp fills: one descriptor per parameter, in order.
SelectParams(toks) ==
    LET F[k \in 0..Len(toks)] ==
          IF k = 0 THEN << >>
          ELSE IF toks[k].kind = "param"
               THEN Append(F[k - 1],
                           [name |-> toks[k].text,
                            pattern |-> DefaultParamPattern,
                            optional |-> toks[k].modifier \in {"?", "*"},
                            repeat |-> toks[k].modifier \in {"+", "*"}])
               ELSE F[k - 1]
    IN F[Len(toks)]
PathToRegexpKeys(pattern) == SelectParams(Tokens(pattern))

\* The matcher: the whole path, an optional trailing '/', a parameter is one
\* or more characters other than '/'.
RECURSIVE MatchTokens(_, _)
MatchTokens(toks, segs) ==
    IF Len(toks) = 0 THEN segs = << >> \/ segs = << EmptyStr >>
    ELSE LET t == toks[1]
             more == Tail(toks)
             one == Len(segs) > 0 /\ segs[1] # EmptyStr
         IN CASE t.kind = "literal" ->
                   Len(segs) > 0 /\ segs[1] = t.text /\ MatchTokens(more, Tail(segs))
              [] t.modifier = "" -> one /\ MatchTokens(more, Tail(segs))
              [] t.modifier = "?" ->
                   \/ one /\ MatchTokens(more, Tail(segs))
                   \/ MatchTokens(more, segs)
              [] t.modifier = "+" ->
                   one /\ (\/ MatchTokens(more, Tail(segs))
                           \/ MatchTokens(toks, Tail(segs)))
              [] OTHER ->
                   \/ MatchTokens(more, segs)
                   \/ one /\ MatchTokens(toks, Tail(segs))

\* route.match(pathToRegexp(registeredRoute, keys))
RouteMatches(route, registeredRoute) ==
    LET parts == Split(route)
    IN IF Len(route) = 0 THEN MatchTokens(Tokens(registeredRoute), << >>)
       ELSE parts[1] = EmptyStr /\ MatchTokens(Tokens(registeredRoute), Tail(parts))

(* ------------------- parameter extraction (runRoute) ------------------ *)
\* route.split('/').slice(1)
RouteParamValues(route) == Slice1(Split(route))

\* The index taken in the pattern split without slice(1).
ParamIndexNoSlice(registeredRoute, paramKey) ==
    IndexOf(Split(Replace(registeredRoute,
                          << "(" >> \o paramKey.pattern \o << ")" >>)),
            << ":" >> \o paramKey.name)

\* registeredRoute.replace(`(${paramKey.pattern})`, '').split('/').slice(1)
\*                .indexOf(`:${paramKey.name}`)
ParamIndex(registeredRoute, paramKey) ==
    IndexOf(Slice1(Split(Replace(registeredRoute,
                                 << "(" >> \o paramKey.pattern \o << ")" >>))),
            << ":" >> \o paramKey.name)

\* if (!isNaN(value)) value = parseInt(value)
ConvertType(value) == IF ~IsNaN(value) THEN ParseInt(value) ELSE value

ParamValue(route, registeredRoute, paramKey) ==
    ConvertType(At(RouteParamValues(route), ParamIndex(registeredRoute, paramKey)))

\* routeParams.reduce(...): the params object, a later key of the same name
\* overwriting an earlier one.
RouteParamsObj(route, registeredRoute) ==
    LET keys == PathToRegexpKeys(registeredRoute)
        names == {keys[k].name : k \in 1..Len(keys)}
        last(nm) == CHOOSE k \in 1..Len(keys) :
                       /\ keys[k].name = nm
                       /\ \A j \in 1..Len(keys) : keys[j].name = nm => j <= k
    IN [nm \in names |-> ParamValue(route, registeredRoute, keys[last(nm)])]

(* --------------------------- JavaScript values ------------------------ *)
False == [t |-> "boolean", s |-> << >>, n |-> 0]
True == [t |-> "boolean", s |-> << >>, n |-> 1]
Null == [t |-> "null", s |-> << >>, n |-> 0]
\* a === b
StrictEquals(a, b) == a.t # "NaN" /\ a = b
\* The outcome of a unit that raises: a throw in a synchronous unit, the
\* rejection of the promise of an asynchronous one.
Thrown == [t |-> "throw", s |-> << >>, n |-> 0]
\* The outcome of a unit whose promise never settles.
Never == [t |-> "never", s |-> << >>, n |-> 0]

(* ------------------------------ inputs -------------------------------- *)
\* A unit (middleware or callback) as the router sees it: whether its result
\* is a promise that settles later, the settled result, and the value it
\* stores in req.custom (when it runs if synchronous, when it settles if
\* asynchronous), Undefined for a unit that leaves req alone.
Unit(id, async, result, write) ==
    [id |-> id, async |-> async, result |-> result, write |-> write]

\* A unit that calls this.navigate(nav) when it is called (get binds every
\* unit to the router).
UnitNav(id, async, result, write, nav) ==
    [id |-> id, async |-> async, result |-> result, write |-> write, nav |-> nav]

\* Does the unit call navigate.
HasNavigate(u) == "nav" \in DOMAIN u

Foo == StrVal(<< "f" >>)
Bar == StrVal(<< "b" >>)

ChainHome == << Unit("home", FALSE, True, Undefined) >>
ChainModify == << Unit("modify.mw", FALSE, Foo, Foo),
                  Unit("modify.cb", FALSE, Null, Undefined) >>
ChainStop == << Unit("stop.mw", FALSE, False, Foo),
                Unit("stop.cb", FALSE, True, Bar) >>
ChainAsync == << Unit("async.mw", TRUE, Undefined, Bar),
                 Unit("async.zero", FALSE, NumVal(0), Foo),
                 Unit("async.cb", FALSE, Undefined, Undefined) >>
ChainAsyncStop == << Unit("astop.empty", FALSE, StrVal(EmptyStr), Undefined),
                     Unit("astop.null", FALSE, Null, Bar),
                     Unit("astop.mw", TRUE, False, Foo),
                     Unit("astop.cb", FALSE, Undefined, Undefined) >>
Chains == {ChainStop, ChainAsync, ChainAsyncStop}

\* '/a', '/:x', '/404'
RouteA == << "/", "a" >>
RouteX == << "/", ":", "x" >>
Route404 == << "/", "4", "0", "4" >>
Patterns == {RouteA, RouteX, Route404}

\* '/a', '/b', '/a/b'
PathA == << "/", "a" >>
PathB == << "/", "b" >>
PathAB == << "/", "a", "/", "b" >>
Paths == {PathA, PathB, PathAB}

\* '/b/:s/:i', '/:x/c'
RouteBSI == << "/", "b", "/", ":", "s", "/", ":", "i" >>
RouteXC == << "/", ":", "x", "/", "c" >>
ParamPatterns == {RouteBSI, RouteXC}

\* '/b/a/12', '/b/1.2/2a', '/1/c', '/b/c/0/'
PathBA12 == << "/", "b", "/", "a", "/", "1", "2" >>
PathB12A == << "/", "b", "/", "1", ".", "2", "/", "2", "a" >>
Path1C == << "/", "1", "/", "c" >>
PathBC0 == << "/", "b", "/", "c", "/", "0", "/" >>
ParamPaths == {PathBA12, PathB12A, Path1C, PathBC0}

\* window.location.pathname when the page has loaded.
InitialLocation == << "/" >>

(* ------------------------------- state -------------------------------- *)
VARIABLES
    routes,         \* this.routes: the keys in insertion order, with callbacks
    currentRoute,   \* this.currentRoute
    location,       \* window.location.pathname
    runs,           \* the calls of foreachAsyncCall that have not returned
    queue,          \* the microtask queue: runs whose await can resume
    listeners,      \* the event types the router has a listener installed for
    routers,        \* the Router instances constructed in the page, this one included
    lastReq,        \* history: the last call of runRoute
    lastOp,         \* history: the last get or delete of each pattern
    ended           \* history: the run that returned last

vars == << routes, currentRoute, location, runs, queue, listeners, routers,
           lastReq, lastOp, ended >>

(* ------------------------------ the registry -------------------------- *)
HasKey(rs, route) == \E k \in 1..Len(rs) : rs[k].route = route
Lookup(rs, route) == rs[CHOOSE k \in 1..Len(rs) : rs[k].route = route]

\* A registration that drops every other key.
SetKeyAlone(rs, route, callbacks) ==
    << [route |-> route, callbacks |-> callbacks] >>

\* A registration that adds its units to those of the key.
SetKeyMerge(rs, route, callbacks) ==
    IF HasKey(rs, route)
    THEN [k \in 1..Len(rs) |->
            IF rs[k].route = route
            THEN [route |-> route, callbacks |-> rs[k].callbacks \o callbacks]
            ELSE rs[k]]
    ELSE Append(rs, [route |-> route, callbacks |-> callbacks])

\* this.routes[route] = {callbacks}: a new key goes last, a key that is
\* present keeps its place and gets the new value.
SetKey(rs, route, callbacks) ==
    IF HasKey(rs, route)
    THEN [k \in 1..Len(rs) |->
            IF rs[k].route = route
            THEN [route |-> route, callbacks |-> callbacks] ELSE rs[k]]
    ELSE Append(rs, [route |-> route, callbacks |-> callbacks])

\* delete that removes nothing.
DeleteNothing(rs, route) == rs

\* delete this.routes[route]
RECURSIVE DeleteKey(_, _)
DeleteKey(rs, route) ==
    IF Len(rs) = 0 THEN << >>
    ELSE IF rs[1].route = route THEN DeleteKey(Tail(rs), route)
    ELSE << rs[1] >> \o DeleteKey(Tail(rs), route)

(* --------------------------- foreachAsyncCall ------------------------- *)
EmptyParams == << >>
NoOp == [op |-> "none", callbacks |-> << >>, replaced |-> FALSE]

\* A new object literal at every call, for a matched route too.
ReqPassedFresh(run) ==
    [route |-> run.route, params |-> run.req.params, custom |-> Undefined]

\* The argument of a unit: the one req object of a matched route, a new
\* object literal at every call for the '/404' route.
ReqPassed(run) ==
    IF run.kind = "match" THEN run.req
    ELSE [route |-> run.route, params |-> EmptyParams, custom |-> Undefined]

\* A unit stores into the object it was passed, and has then settled.
WriteReq(run, u) ==
    IF run.kind = "match" /\ u.write # Undefined
    THEN [run EXCEPT !.req.custom = u.write, !.settled = @ + 1]
    ELSE [run EXCEPT !.settled = @ + 1]

\* A call that is not awaited: the loop goes on while the promise is pending.
CallNoAwait(run, i) ==
    LET u == run.callbacks[i]
        called == [run EXCEPT !.idx = i,
                              !.status = "awaiting",
                              !.invoked = Append(@, [unit |-> u.id,
                                                     seen |-> ReqPassed(run),
                                                     settled |-> run.settled])]
    IN IF u.async THEN called ELSE WriteReq(called, u)

\* callback(i, items[i]): the unit is called; a synchronous unit has run when
\* the call returns, an asynchronous one has returned a pending promise.
Call(run, i) ==
    LET u == run.callbacks[i]
        called == [run EXCEPT !.idx = i,
                              !.status = IF u.async THEN "pending" ELSE "awaiting",
                              !.invoked = Append(@, [unit |-> u.id,
                                                     seen |-> ReqPassed(run),
                                                     settled |-> run.settled])]
    IN IF u.async THEN called ELSE WriteReq(called, u)

\* A loop that awaits once before it calls its first unit.
ForeachAsyncCallDeferred(run) ==
    IF Len(run.callbacks) = 0 THEN [run EXCEPT !.status = "done"]
    ELSE [run EXCEPT !.callbacks = << Unit("tick", FALSE, Undefined, Undefined) >> \o @,
                     !.idx = 1,
                     !.status = "awaiting"]

\* A loop that does not await a synchronous first unit: the second unit is
\* called in the same turn.
ForeachAsyncCallEager(run) ==
    IF Len(run.callbacks) = 0 THEN [run EXCEPT !.status = "done"]
    ELSE LET first == Call(run, 1)
         IN IF /\ ~run.callbacks[1].async
               /\ ~StrictEquals(run.callbacks[1].result, False)
               /\ Len(run.callbacks) >= 2
            THEN Call(first, 2)
            ELSE first

\* The call of foreachAsyncCall up to its first await.
ForeachAsyncCall(run) ==
    IF Len(run.callbacks) = 0 THEN [run EXCEPT !.status = "done"]
    ELSE Call(run, 1)

\* A loose test: any falsy result ends the loop.
ResumeFalsy(run) ==
    LET result == run.callbacks[run.idx].result
        falsy == \/ result.t \in {"undefined", "null", "NaN"}
                 \/ result.t = "boolean" /\ result.n = 0
                 \/ result.t = "number" /\ result.n = 0
                 \/ result.t = "string" /\ result.s = EmptyStr
    IN IF falsy THEN [run EXCEPT !.status = "done"]
       ELSE IF run.idx + 1 <= Len(run.callbacks) THEN Call(run, run.idx + 1)
       ELSE [run EXCEPT !.status = "done"]

\* A loop that reads the chain from the registry at every turn.
ResumeFromRegistry(run) ==
    LET result == run.callbacks[run.idx].result
        now == IF HasKey(routes, run.pattern)
               THEN Lookup(routes, run.pattern).callbacks ELSE << >>
    IN IF result = Thrown THEN [run EXCEPT !.status = "rejected"]
       ELSE IF StrictEquals(result, False) THEN [run EXCEPT !.status = "done"]
       ELSE IF run.idx + 1 <= Len(now)
            THEN Call([run EXCEPT !.callbacks = now], run.idx + 1)
       ELSE [run EXCEPT !.status = "done"]

\* A loop that catches what a unit raises and goes on.
ResumeSwallow(run) ==
    LET result == run.callbacks[run.idx].result
    IN IF StrictEquals(result, False) THEN [run EXCEPT !.status = "done"]
       ELSE IF run.idx + 1 <= Len(run.callbacks) THEN Call(run, run.idx + 1)
       ELSE [run EXCEPT !.status = "done"]

\* A loop that goes on only while its route is the current one.
ResumeIfCurrent(run) ==
    LET result == run.callbacks[run.idx].result
    IN IF run.route # currentRoute THEN [run EXCEPT !.status = "done"]
       ELSE IF result = Thrown THEN [run EXCEPT !.status = "rejected"]
       ELSE IF StrictEquals(result, False) THEN [run EXCEPT !.status = "done"]
       ELSE IF run.idx + 1 <= Len(run.callbacks) THEN Call(run, run.idx + 1)
       ELSE [run EXCEPT !.status = "done"]

\* A loop that ends once a unit has called navigate.
ResumeUnlessRedirected(run) ==
    LET result == run.callbacks[run.idx].result
    IN IF HasNavigate(run.callbacks[run.idx]) THEN [run EXCEPT !.status = "done"]
       ELSE IF result = Thrown THEN [run EXCEPT !.status = "rejected"]
       ELSE IF StrictEquals(result, False) THEN [run EXCEPT !.status = "done"]
       ELSE IF run.idx + 1 <= Len(run.callbacks) THEN Call(run, run.idx + 1)
       ELSE [run EXCEPT !.status = "done"]

\* The loop after its await: the exception of the unit is thrown out of the
\* loop and rejects the promise of foreachAsyncCall;
\* if (result === false) break; else the next turn of the loop.
Resume(run) ==
    LET result == run.callbacks[run.idx].result
    IN IF result = Thrown THEN [run EXCEPT !.status = "rejected"]
       ELSE IF StrictEquals(result, False) THEN [run EXCEPT !.status = "done"]
       ELSE IF run.idx + 1 <= Len(run.callbacks) THEN Call(run, run.idx + 1)
       ELSE [run EXCEPT !.status = "done"]

\* foreachAsyncCall is an async function and runRoute calls it without
\* await, then or catch: the call returns a promise, and what the loop throws
\* rejects that promise in a later microtask; nothing is thrown to runRoute
\* and so to the caller of navigate.
ThrownToCaller(run) == FALSE

(* ------------------------------- runRoute ----------------------------- *)
\* One req object kept for each pattern: a dispatch takes the object of a run
\* of the same pattern that is in flight.
NewRunSharedReq(kind, registeredRoute, route, callbacks, params) ==
    LET same == {s \in 1..Len(runs) : runs[s].pattern = registeredRoute}
    IN [kind |-> kind, pattern |-> registeredRoute, route |-> route,
        callbacks |-> callbacks,
        req |-> IF same # {} THEN runs[CHOOSE s \in same : TRUE].req
                ELSE [route |-> route, params |-> params, custom |-> Undefined],
        idx |-> 0, status |-> "idle", invoked |-> << >>, settled |-> 0]

\* const req = {route, params}: a new object for the dispatch, and the record
\* of its call of foreachAsyncCall.
NewRun(kind, registeredRoute, route, callbacks, params) ==
    [kind |-> kind, pattern |-> registeredRoute, route |-> route,
     callbacks |-> callbacks,
     req |-> [route |-> route, params |-> params, custom |-> Undefined],
     idx |-> 0, status |-> "idle", invoked |-> << >>, settled |-> 0]

\* forEach in place of some: the loop goes on after a match.
RECURSIVE SomeRouteEvery(_, _, _)
SomeRouteEvery(rs, k, route) ==
    IF k > Len(rs) THEN [found |-> FALSE, started |-> << >>]
    ELSE LET rest == SomeRouteEvery(rs, k + 1, route)
         IN IF RouteMatches(route, rs[k].route)
            THEN [found |-> TRUE,
                  started |-> << NewRun("match", rs[k].route, route,
                                        rs[k].callbacks,
                                        RouteParamsObj(route, rs[k].route)) >>
                              \o rest.started]
            ELSE rest

\* The last matching key in place of the first.
RECURSIVE SomeRouteLast(_, _, _)
SomeRouteLast(rs, k, route) ==
    IF k > Len(rs) THEN [found |-> FALSE, started |-> << >>]
    ELSE LET rest == SomeRouteLast(rs, k + 1, route)
         IN IF rest.found THEN rest
            ELSE IF RouteMatches(route, rs[k].route)
                 THEN [found |-> TRUE,
                       started |-> << NewRun("match", rs[k].route, route,
                                             rs[k].callbacks,
                                             RouteParamsObj(route, rs[k].route)) >>]
                 ELSE rest

\* Object.keys(this.routes).some(...): the keys in order up to the first one
\* whose matcher accepts the route; its chain is run if the key is truthy.
RECURSIVE SomeRoute(_, _, _)
SomeRoute(rs, k, route) ==
    IF k > Len(rs) THEN [found |-> FALSE, started |-> << >>]
    ELSE IF RouteMatches(route, rs[k].route)
         THEN [found |-> TRUE,
               started |->
                 IF rs[k].route # EmptyStr /\ HasKey(rs, rs[k].route)
                 THEN << NewRun("match", rs[k].route, route,
                                Lookup(rs, rs[k].route).callbacks,
                                RouteParamsObj(route, rs[k].route)) >>
                 ELSE << >>]
         ELSE SomeRoute(rs, k + 1, route)

\* A default chain: with nothing matching, the chain of the first key.
FallbackFirstKey(rs, found, route) ==
    IF ~found /\ Len(rs) > 0
    THEN << NewRun("404", rs[1].route, route, rs[1].callbacks, EmptyParams) >>
    ELSE << >>

\* The fallback chain passed '/404' as the route.
FallbackOwnRoute(rs, found, route) ==
    IF ~found /\ HasKey(rs, Route404)
    THEN << NewRun("404", Route404, Route404,
                   Lookup(rs, Route404).callbacks, EmptyParams) >>
    ELSE << >>

\* if (!hasMatchingRoute && !!this.routes['/404'])
Fallback(rs, found, route) ==
    IF ~found /\ HasKey(rs, Route404)
    THEN << NewRun("404", Route404, route,
                   Lookup(rs, Route404).callbacks, EmptyParams) >>
    ELSE << >>

\* The fallback consulted whether or not a key matched.
StartedChainsBoth(rs, route) ==
    SomeRoute(rs, 1, route).started \o Fallback(rs, FALSE, route)

\* The chains one dispatch starts.
StartedChains(rs, route) ==
    LET m == SomeRoute(rs, 1, route)
    IN m.started \o Fallback(rs, m.found, route)

\* route = route || window.location.pathname
EffectiveRoute(arg, loc) == IF arg = EmptyStr THEN loc ELSE arg

\* The test passes only while a chain of the route is in flight.
DeduplicatedWhileRunning(route) ==
    route = currentRoute /\ \E s \in 1..Len(runs) : runs[s].route = route

\* No test of the current route.
NeverDeduplicated(route) == FALSE

\* if (route === this.currentRoute) return, for a given value of the field.
DeduplicatedAt(route, current) == route = current

\* if (route === this.currentRoute) return
Deduplicated(route) == DeduplicatedAt(route, currentRoute)

\* The runs that did not return at once, and those of them that can resume.
Live(begun) == SelectSeq(begun, LAMBDA r : r.status # "done")
Ready(rs, from) ==
    SelectSeq([k \in 1..(Len(rs) - from) |-> from + k],
              LAMBDA r : rs[r].status = "awaiting")

Remember(route, deduped) == [route |-> route, deduped |-> deduped, n |-> 1]

\* Has the unit the run has just called called navigate.
Redirects(run) ==
    Len(run.invoked) > 0 /\ HasNavigate(run.callbacks[run.idx])

\* The router and the page while one task runs: this.currentRoute, the
\* address, the calls of foreachAsyncCall begun so far, the order in which
\* their first awaits were reached, and the last call of runRoute.
Machine(loc) ==
    [cur |-> currentRoute, loc |-> loc, begun |-> << >>, order |-> << >>,
     last |-> lastReq]

RECURSIVE BeginAll(_, _, _), NavigateIn(_, _)

\* The body of runRoute after the test of the current route: the field is
\* set, then the chains are begun.
Dispatch(st, route) ==
    BeginAll([st EXCEPT !.cur = route, !.last = Remember(route, FALSE)],
             StartedChains(routes, route), 1)

\* navigate(route) called by a unit: pushState, then runRoute(route), all
\* inside the call of the unit.
NavigateIn(st, route) ==
    LET pushed == [st EXCEPT !.loc = route]
    IN IF DeduplicatedAt(route, st.cur)
       THEN [pushed EXCEPT !.last = Remember(route, TRUE)]
       ELSE Dispatch(pushed, route)

\* foreachAsyncCall for each chain of the dispatch: the first unit is called
\* at once; what it does, a navigate included, is over when the await of the
\* loop is reached.
BeginAll(st, chains, k) ==
    IF k > Len(chains) THEN st
    ELSE LET begun == ForeachAsyncCall(chains[k])
         IN IF begun.status = "done" THEN BeginAll(st, chains, k + 1)
            ELSE LET j == Len(st.begun) + 1
                     placed == [st EXCEPT !.begun = Append(@, begun)]
                     inner == IF Redirects(begun)
                              THEN NavigateIn(placed, begun.callbacks[begun.idx].nav)
                              ELSE placed
                     after == IF begun.status = "awaiting"
                              THEN [inner EXCEPT !.order = Append(@, j)]
                              ELSE inner
                 IN BeginAll(after, chains, k + 1)

\* The places in runs of the calls a task has begun that can resume.
Placed(st) == [k \in 1..Len(st.order) |-> Len(runs) + st.order[k]]

RunRoute(arg, loc) ==
    LET route == EffectiveRoute(arg, loc)
        st == IF Deduplicated(route)
              THEN [Machine(loc) EXCEPT !.last = Remember(route, TRUE)]
              ELSE Dispatch(Machine(loc), route)
    IN /\ Len(runs) + Len(st.begun) <= MaxRuns
       /\ currentRoute' = st.cur
       /\ location' = st.loc
       /\ lastReq' = st.last
       /\ runs' = runs \o st.begun
       /\ queue' = queue \o Placed(st)

(* ------------------------------- actions ------------------------------ *)
\* addEventListeners(), called by the constructor.
AddEventListeners == {"click", "keyup", "popstate"}

\* A listener that is called whether it is installed or not.
DeliveredAlways(type) == TRUE

\* Is the router's listener called for an event of this type.
Delivered(type) == type \in listeners

Init ==
    /\ routes = << >>
    /\ currentRoute = EmptyStr
    /\ location = InitialLocation
    /\ runs = << >>
    /\ queue = << >>
    /\ listeners = AddEventListeners
    /\ routers = 1
    /\ lastReq = [route |-> EmptyStr, deduped |-> FALSE, n |-> 0]
    /\ lastOp = << >>
    /\ ended = [callbacks |-> << >>, invoked |-> << >>, rejected |-> FALSE,
                escaped |-> FALSE]

\* navigate(route): history.pushState, then runRoute(route).
Navigate(route) ==
    /\ RunRoute(route, route)
    /\ UNCHANGED << routes, listeners, routers, lastOp, ended >>

\* The user goes back or forward to an entry of the session history; the
\* popstate listener, if installed, calls runRoute().
Popstate(entry) ==
    /\ IF Delivered("popstate") THEN RunRoute(EmptyStr, entry)
       ELSE /\ location' = entry
            /\ UNCHANGED << currentRoute, runs, queue, lastReq >>
    /\ UNCHANGED << routes, listeners, routers, lastOp, ended >>

\* if (e.type === 'click' || (e.type === 'keyup' && e.key === 'Enter')) and
\* the target is inside an element with a non-empty router-href.
IsRouterLinkEvent(type, key, href) ==
    /\ type = "click" \/ (type = "keyup" /\ key = "Enter")
    /\ href # EmptyStr

\* A click or keyup event on an element whose closest router-href is href
\* ('' when there is none): handleRouterLinks, if installed, navigates; the
\* listener of another Router instance navigates that instance, which pushes
\* the address.
RouterLink(type, key, href) ==
    IF Delivered(type) /\ IsRouterLinkEvent(type, key, href)
    THEN Navigate(href)
    ELSE IF routers > 1 /\ IsRouterLinkEvent(type, key, href)
    THEN /\ location' = href
         /\ UNCHANGED << routes, currentRoute, runs, queue, listeners, routers,
                         lastReq, lastOp, ended >>
    ELSE UNCHANGED vars

\* removeEventListeners()
RemoveEventListeners ==
    /\ listeners' = listeners \ {"click", "keyup", "popstate"}
    /\ UNCHANGED << routes, currentRoute, location, runs, queue, routers,
                    lastReq, lastOp, ended >>

\* new Router() elsewhere in the page: its constructor calls
\* addEventListeners, which installs the listeners of the new instance.
NewRouter ==
    /\ routers < MaxRouters
    /\ routers' = routers + 1
    /\ UNCHANGED << routes, currentRoute, location, runs, queue, listeners,
                    lastReq, lastOp, ended >>

\* Does get(route, callbacks) replace another chain.
Replaces(route, callbacks) ==
    HasKey(routes, route) /\ Lookup(routes, route).callbacks # callbacks

\* get(route, ...middlewareAndCallback)
Get(route, callbacks) ==
    /\ routes' = SetKey(routes, route, callbacks)
    /\ lastOp' = (route :> [op |-> "get", callbacks |-> callbacks,
                            replaced |-> Replaces(route, callbacks)]) @@ lastOp
    /\ UNCHANGED << currentRoute, location, runs, queue, listeners, routers, lastReq,
                    ended >>

\* delete(route)
Delete(route) ==
    /\ routes' = DeleteKey(routes, route)
    /\ lastOp' = (route :> [op |-> "delete", callbacks |-> << >>,
                            replaced |-> FALSE]) @@ lastOp
    /\ UNCHANGED << currentRoute, location, runs, queue, listeners, routers, lastReq,
                    ended >>

\* Promises that settle in the order of their runs: a pending promise keeps
\* those of the later runs from settling.
SettleInOrder(s) ==
    /\ s \in 1..Len(runs)
    /\ runs[s].status = "pending"
    /\ runs[s].callbacks[runs[s].idx].result # Never
    /\ \A t \in 1..(s - 1) : runs[t].status # "pending"
    /\ runs' = [runs EXCEPT ![s] =
                  [WriteReq(runs[s], runs[s].callbacks[runs[s].idx])
                     EXCEPT !.status = "awaiting"]]
    /\ queue' = Append(queue, s)
    /\ UNCHANGED << routes, currentRoute, location, listeners, routers, lastReq, lastOp,
                    ended >>

\* The promise of a pending asynchronous unit settles (a promise that never
\* settles does not): the unit has stored its value, the await of the loop
\* can resume.
Settle(s) ==
    /\ s \in 1..Len(runs)
    /\ runs[s].status = "pending"
    /\ runs[s].callbacks[runs[s].idx].result # Never
    /\ runs' = [runs EXCEPT ![s] =
                  [WriteReq(runs[s], runs[s].callbacks[runs[s].idx])
                     EXCEPT !.status = "awaiting"]]
    /\ queue' = Append(queue, s)
    /\ UNCHANGED << routes, currentRoute, location, listeners, routers, lastReq, lastOp,
                    ended >>

\* The first microtask: the loop of a run resumes after its await; a run
\* whose loop has ended is dropped; a unit that is called may call navigate.
Continue ==
    /\ Len(queue) > 0
    /\ LET s == Head(queue)
           next == Resume(runs[s])
       IN IF next.status \in {"done", "rejected"}
          THEN /\ runs' = SubSeq(runs, 1, s - 1) \o SubSeq(runs, s + 1, Len(runs))
               /\ ended' = [callbacks |-> next.callbacks,
                            invoked |-> [k \in 1..Len(next.invoked) |->
                                           next.invoked[k].unit],
                            rejected |-> next.status = "rejected",
                            escaped |-> ThrownToCaller(next)]
               /\ queue' = [k \in 1..(Len(queue) - 1) |->
                              IF queue[k + 1] > s THEN queue[k + 1] - 1
                              ELSE queue[k + 1]]
               /\ UNCHANGED << currentRoute, location, lastReq >>
          ELSE LET st == IF Redirects(next)
                         THEN NavigateIn(Machine(location),
                                         next.callbacks[next.idx].nav)
                         ELSE Machine(location)
               IN /\ Len(runs) + Len(st.begun) <= MaxRuns
                  /\ runs' = [runs EXCEPT ![s] = next] \o st.begun
                  /\ ended' = ended
                  /\ queue' = Tail(queue) \o Placed(st)
                                \o (IF next.status = "awaiting" THEN << s >>
                                    ELSE << >>)
                  /\ currentRoute' = st.cur
                  /\ location' = st.loc
                  /\ lastReq' = st.last
    /\ UNCHANGED << routes, listeners, routers, lastOp >>

\* Routing: overlapping patterns and the fallback, one short chain.
RouteChains == {ChainModify}
Next ==
    \/ \E route \in Paths : Navigate(route)
    \/ \E entry \in Paths : Popstate(entry)
    \/ \E route \in Patterns, callbacks \in RouteChains : Get(route, callbacks)
    \/ \E route \in Patterns : Delete(route)
    \/ Continue
Spec == Init /\ [][Next]_vars

\* Registration: a pattern registered again with another chain.
OverwritePatterns == {RouteA, Route404}
OverwriteChains == {ChainHome, ChainModify}
NextOverwrite ==
    \/ \E route \in {PathA, PathB} : Navigate(route)
    \/ \E entry \in {PathA, PathB} : Popstate(entry)
    \/ \E route \in OverwritePatterns, callbacks \in OverwriteChains : Get(route, callbacks)
    \/ \E route \in OverwritePatterns : Delete(route)
    \/ Continue
SpecOverwrite == Init /\ [][NextOverwrite]_vars

\* Chains: one pattern and the fallback, chains of synchronous and
\* asynchronous units.
NextChain ==
    \/ \E route \in {PathA, PathB} : Navigate(route)
    \/ \E entry \in {PathA, PathB} : Popstate(entry)
    \/ \E callbacks \in Chains : Get(RouteA, callbacks)
    \/ Get(Route404, ChainAsyncStop)
    \/ Delete(RouteA)
    \/ \E s \in 1..MaxRuns : Settle(s)
    \/ Continue
SpecChain == Init /\ [][NextChain]_vars

(* ------------------------------ properties ---------------------------- *)
\* The calls of foreachAsyncCall a step begins (none unless the step is a
\* dispatch).
Started == SubSeq(runs', Len(runs) + 1, Len(runs'))
\* The step is a call of runRoute that passed the dedup test.
Dispatches == currentRoute' # currentRoute
\* The registered keys whose matcher accepts the route.
MatchingKeys(rs, route) == {k \in 1..Len(rs) : RouteMatches(route, rs[k].route)}
\* What the caller last asked for a pattern.
Asked(route) == IF route \in DOMAIN lastOp THEN lastOp[route] ELSE NoOp
RunsOf(route) == {s \in 1..Len(runs) : runs[s].route = route}

\* C1: a dispatch starts at most one chain: the chain of one registered
\* pattern that matches the path, or the '/404' chain when no registered
\* pattern matches, never both and never two matched chains.
C1_AtMostOneChain ==
    [][/\ Len(Started) <= 1
       /\ \A k \in 1..Len(Started) :
            LET r == Started[k]
            IN \/ /\ r.kind = "match"
                  /\ HasKey(routes, r.pattern)
                  /\ RouteMatches(currentRoute', r.pattern)
               \/ /\ r.kind = "404"
                  /\ HasKey(routes, Route404)
                  /\ MatchingKeys(routes, currentRoute') = {}]_vars

\* Two registered patterns match the dispatched path and one chain runs.
C1_Witness ==
    /\ Cardinality(MatchingKeys(routes, currentRoute)) >= 2
    /\ Cardinality(RunsOf(currentRoute)) = 1
    /\ \E s \in RunsOf(currentRoute) :
          runs[s].kind = "match" /\ Len(runs[s].invoked) >= 1

\* C4: a request starts a chain only if its path differs from the path of
\* the request before it; a request for another path is dispatched (and runs
\* the chain of a matching pattern or the fallback), a request for the same
\* path starts nothing, whatever the earlier request did.
C4_Dedup ==
    [][/\ (Len(Started) > 0 \/ Dispatches) =>
             (lastReq.n = 0 \/ lastReq'.route # lastReq.route)
       /\ (lastReq'.n = 1 /\ (lastReq.n = 0 \/ lastReq'.route # lastReq.route)) =>
             /\ ~lastReq'.deduped
             /\ currentRoute' = lastReq'.route
             /\ (MatchingKeys(routes, lastReq'.route) # {} \/ HasKey(routes, Route404))
                   => Len(Started) = 1
       /\ (lastReq' # lastReq /\ lastReq.n = 1 /\ lastReq'.route = lastReq.route) =>
             /\ lastReq'.deduped
             /\ runs' = runs /\ queue' = queue /\ currentRoute' = currentRoute]_vars

\* The last request repeated the path of the one before, whose chain is
\* still in flight, and started nothing.
C4_Witness ==
    /\ lastReq.deduped
    /\ Cardinality(RunsOf(lastReq.route)) = 1
    /\ HasKey(routes, RouteA) /\ lastReq.route = PathA

\* delete(route) of a pattern that is not registered, as a step.
DeleteOfAbsent(p) ==
    /\ ~HasKey(routes, p)
    /\ Asked(p).op # "delete"
    /\ p \in DOMAIN lastOp' /\ lastOp'[p].op = "delete"

\* C6: after delete(p) a dispatch never starts the chain registered under p:
\* for a path no registered pattern matches it starts the '/404' chain if one
\* is registered and nothing otherwise; delete of an unregistered pattern
\* leaves the registry unchanged.
C6_Delete ==
    [][/\ \A k \in 1..Len(Started) : Asked(Started[k].pattern).op = "get"
       /\ (/\ Dispatches
           /\ MatchingKeys(routes, currentRoute') = {}
           /\ \E p \in DOMAIN lastOp :
                 lastOp[p].op = "delete" /\ RouteMatches(currentRoute', p))
          => IF Asked(Route404).op = "get"
             THEN Len(Started) = 1 /\ Started[1].kind = "404"
             ELSE Len(Started) = 0
       /\ (\E p \in DOMAIN lastOp' : DeleteOfAbsent(p)) => routes' = routes]_vars

\* A path only a deleted pattern matched was dispatched and ran the fallback.
C6_Witness ==
    /\ MatchingKeys(routes, currentRoute) = {}
    /\ \E p \in DOMAIN lastOp : lastOp[p].op = "delete" /\ RouteMatches(currentRoute, p)
    /\ \E s \in RunsOf(currentRoute) : runs[s].kind = "404" /\ Len(runs[s].invoked) >= 1

\* C7: a dispatch of a path no registered pattern matches, with '/404'
\* registered, starts the '/404' chain, and every unit of that chain is passed
\* the unmatched path as route and empty params.
C7_Fallback ==
    [][/\ (Dispatches /\ MatchingKeys(routes, currentRoute') = {}
             /\ HasKey(routes, Route404))
          => /\ Len(Started) = 1
             /\ Started[1].kind = "404"
             /\ Len(Started[1].invoked) = 1
             /\ Started[1].invoked[1].seen.route = lastReq'.route
       /\ \A s \in 1..Len(runs') :
            runs'[s].kind = "404" =>
               \A k \in 1..Len(runs'[s].invoked) :
                  /\ runs'[s].invoked[k].seen.route = runs'[s].invoked[1].seen.route
                  /\ runs'[s].invoked[k].seen.params = EmptyParams]_vars

\* The second unit of a fallback chain has been called for an unmatched path.
C7_Witness ==
    \E s \in 1..Len(runs) :
       /\ runs[s].kind = "404"
       /\ Len(runs[s].invoked) >= 2
       /\ runs[s].invoked[2].seen.route = PathAB
       /\ runs[s].invoked[2].seen.route # Route404

UnitIds(callbacks) == {callbacks[k].id : k \in 1..Len(callbacks)}

\* The registry holds one entry for each pattern, with the chain of the
\* last get.
RegistryAsAsked ==
    /\ \A j, k \in 1..Len(routes) : routes[j].route = routes[k].route => j = k
    /\ \A p \in DOMAIN lastOp :
          lastOp[p].op = "get" =>
             /\ HasKey(routes, p)
             /\ \A k \in 1..Len(routes) :
                   routes[k].route = p => routes[k].callbacks = lastOp[p].callbacks

\* C5: after get(p, U...) and a later get(p, V...) the registry holds one
\* chain for p, equal to V, and a dispatch that selects p calls units of V
\* only.
C5_LastWriteWins ==
    [][/\ RegistryAsAsked'
       /\ \A k \in 1..Len(Started) :
            /\ Asked(Started[k].pattern).op = "get"
            /\ Started[k].callbacks = Asked(Started[k].pattern).callbacks
            /\ \A i \in 1..Len(Started[k].invoked) :
                  Started[k].invoked[i].unit \in UnitIds(Asked(Started[k].pattern).callbacks)
       /\ \A s \in 1..Len(runs') :
            \A i \in 1..Len(runs'[s].invoked) :
               runs'[s].invoked[i].unit \in UnitIds(runs'[s].callbacks)]_vars

\* A pattern registered over another chain was selected and ran the new one.
C5_Witness ==
    \E s \in 1..Len(runs) :
       /\ runs[s].kind = "match"
       /\ Asked(runs[s].pattern).op = "get"
       /\ Asked(runs[s].pattern).replaced
       /\ runs[s].callbacks = Asked(runs[s].pattern).callbacks
       /\ Len(runs[s].invoked) >= 1

ResultOf(callbacks, id) ==
    (CHOOSE u \in {callbacks[k] : k \in 1..Len(callbacks)} : u.id = id).result

\* C2: no unit of a chain is called after a unit whose settled result is
\* false, and only false ends a chain before its last unit: after null,
\* undefined, 0 or '' the next unit is called.
C2_HaltOnFalse ==
    /\ \A s \in 1..Len(runs) :
          \A k \in 1..(Len(runs[s].invoked) - 1) :
             ResultOf(runs[s].callbacks, runs[s].invoked[k].unit) # False
    /\ Len(ended.invoked) > 0 =>
          /\ \A k \in 1..(Len(ended.invoked) - 1) :
                ResultOf(ended.callbacks, ended.invoked[k]) # False
          /\ \/ ResultOf(ended.callbacks, ended.invoked[Len(ended.invoked)]) = False
             \/ Len(ended.invoked) = Len(ended.callbacks)

\* A chain went on after '' and null and ended at the false of an
\* asynchronous unit, before its last unit.
C2_Witness ==
    /\ ended.callbacks = ChainAsyncStop
    /\ ended.invoked = << "astop.empty", "astop.null", "astop.mw" >>

\* C3: the units of a run are called in the order of the chain, one at a
\* time, each after all the units before it have settled: what an
\* asynchronous unit stores in the context of a matched chain when it settles
\* is what the next unit is passed.
C3_InOrder ==
    \A s \in 1..Len(runs) :
       LET r == runs[s]
       IN /\ r.idx = Len(r.invoked)
          /\ Len(r.invoked) <= Len(r.callbacks)
          /\ \A k \in 1..Len(r.invoked) :
                /\ r.invoked[k].unit = r.callbacks[k].id
                /\ r.invoked[k].settled = k - 1
          /\ \A k \in 2..Len(r.invoked) :
                (r.kind = "match" /\ r.callbacks[k - 1].async
                   /\ r.callbacks[k - 1].write # Undefined)
                => r.invoked[k].seen.custom = r.callbacks[k - 1].write

\* The unit after an asynchronous one was passed the value stored on settling.
C3_Witness ==
    \E s \in 1..Len(runs) :
       /\ runs[s].callbacks = ChainAsync
       /\ Len(runs[s].invoked) >= 2
       /\ runs[s].invoked[2].seen.custom = Bar

\* The value of req.custom after the first n units of a chain have stored.
RECURSIVE CustomAfter(_, _)
CustomAfter(callbacks, n) ==
    IF n = 0 THEN Undefined
    ELSE IF callbacks[n].write # Undefined THEN callbacks[n].write
    ELSE CustomAfter(callbacks, n - 1)

\* C10: the units of a matched chain are passed one context object: what a
\* unit stores in it is what every later unit of the run is passed.
C10_SharedContext ==
    \A s \in 1..Len(runs) :
       runs[s].kind = "match" =>
          \A k \in 1..Len(runs[s].invoked) :
             /\ runs[s].invoked[k].seen.custom = CustomAfter(runs[s].callbacks, k - 1)
             /\ runs[s].invoked[k].seen.route = runs[s].invoked[1].seen.route
             /\ runs[s].invoked[k].seen.params = runs[s].invoked[1].seen.params

\* The third unit was passed what the second, synchronous, unit stored.
C10_Witness ==
    \E s \in 1..Len(runs) :
       /\ runs[s].kind = "match"
       /\ runs[s].callbacks = ChainAsync
       /\ Len(runs[s].invoked) = 3
       /\ runs[s].invoked[3].seen.custom = Foo

\* Parameters: patterns of literals and plain parameters, paths with
\* numeric, fractional and mixed segments.
NextParams ==
    \/ \E route \in ParamPaths : Navigate(route)
    \/ \E entry \in ParamPaths : Popstate(entry)
    \/ \E route \in ParamPatterns : Get(route, ChainModify)
    \/ \E route \in ParamPatterns : Delete(route)
    \/ Continue
SpecParams == Init /\ [][NextParams]_vars

Segments(s) == Tail(Split(s))
\* Is the pattern made of literal segments and plain ':name' segments.
PlainPattern(pattern) ==
    \A k \in 1..Len(Segments(pattern)) :
       LET seg == Segments(pattern)[k]
       IN Len(seg) > 0 /\ seg[Len(seg)] \notin Modifiers /\ "(" \notin {seg[i] : i \in 1..Len(seg)}
PatternNames(pattern) ==
    {Tail(Segments(pattern)[k]) : k \in {j \in 1..Len(Segments(pattern)) :
                                           Segments(pattern)[j][1] = ":"}}

\* C8: for a pattern of literal segments and plain parameters and a matching
\* path with as many segments, every unit of the chain is passed the path as
\* route and params with the names of the pattern, each name with the
\* (converted) path segment at the index of its parameter in the pattern.
C8_PositionalParams ==
    \A s \in 1..Len(runs) :
       LET r == runs[s]
           segs == Segments(r.invoked[1].seen.route)
           psegs == Segments(r.pattern)
       IN (r.kind = "match" /\ PlainPattern(r.pattern) /\ Len(segs) = Len(psegs))
          => \A k \in 1..Len(r.invoked) :
                LET seen == r.invoked[k].seen
                IN /\ seen.route = r.invoked[1].seen.route
                   /\ RouteMatches(seen.route, r.pattern)
                   /\ DOMAIN seen.params = PatternNames(r.pattern)
                   /\ \A nm \in DOMAIN seen.params :
                         \E i \in 1..Len(psegs) :
                            /\ psegs[i] = << ":" >> \o nm
                            /\ seen.params[nm] = ConvertType(StrVal(segs[i]))

\* '/b/:s/:i' ran for '/b/a/12': s is 'a' and i is 12.
C8_Witness ==
    \E s \in 1..Len(runs) :
       /\ runs[s].pattern = RouteBSI
       /\ Len(runs[s].invoked) = 2
       /\ runs[s].invoked[2].seen.route = PathBA12
       /\ runs[s].invoked[2].seen.params[<< "s" >>] = StrVal(<< "a" >>)
       /\ runs[s].invoked[2].seen.params[<< "i" >>] = NumVal(12)

\* The value the claim gives a segment: the number of an integer numeral,
\* the string itself otherwise.
IntegerOrRaw(seg) ==
    IF Len(seg) > 0 /\ AllDigits(seg) THEN NumVal(DecimalValue(seg)) ELSE StrVal(seg)

\* C9: a parameter value is a number if and only if the whole extracted
\* string is an integer numeral; every other string is stored unchanged, and
\* no value is NaN or a truncated number.
C9_NumericIffNumeral ==
    \A s \in 1..Len(runs) :
       LET r == runs[s]
           segs == Segments(r.invoked[1].seen.route)
           psegs == Segments(r.pattern)
       IN (r.kind = "match" /\ PlainPattern(r.pattern))
          => \A nm \in DOMAIN r.invoked[1].seen.params :
                /\ r.invoked[1].seen.params[nm].t # "NaN"
                /\ \E i \in 1..Len(psegs) :
                      /\ psegs[i] = << ":" >> \o nm
                      /\ r.invoked[1].seen.params[nm] = IntegerOrRaw(segs[i])

(* ------------------------------ listeners ----------------------------- *)
\* Events: clicks and key presses on router links and elsewhere, history
\* traversal, and the removal of the listeners.
EventTypes == {"click", "keyup"}
EventKeys == {"Enter", "a"}
LinkTargets == {EmptyStr, PathA, PathB}
NextListeners ==
    \/ \E route \in {PathA, PathB} : Navigate(route)
    \/ \E entry \in {PathA, PathB} : Popstate(entry)
    \/ \E type \in EventTypes, key \in EventKeys, href \in LinkTargets :
          RouterLink(type, key, href)
    \/ RemoveEventListeners
    \/ \E route \in {RouteA, Route404} : Get(route, ChainModify)
    \/ Delete(RouteA)
    \/ Continue
SpecListeners == Init /\ [][NextListeners]_vars

\* The step is an event of the page: a click or key press, or a popstate.
PageEvent ==
    \/ \E entry \in {PathA, PathB} : Popstate(entry)
    \/ \E type \in EventTypes, key \in EventKeys, href \in LinkTargets :
          RouterLink(type, key, href)

\* C11: once removeEventListeners() has been called the listeners stay
\* removed, no click, Enter keyup or popstate calls runRoute or starts a
\* chain, and navigate(path) for a path other than the current one still
\* dispatches and starts the chain of the matching pattern (or '/404').
C11_ListenersRemoved ==
    [][/\ listeners = {} => listeners' = {}
       /\ (listeners = {} /\ PageEvent)
             => UNCHANGED << currentRoute, runs, queue, lastReq >>
       /\ \A route \in {PathA, PathB} :
             (listeners = {} /\ Navigate(route) /\ route # currentRoute)
             => /\ currentRoute' = route
                /\ lastReq' = Remember(route, FALSE)
                /\ (MatchingKeys(routes, route) # {} \/ HasKey(routes, Route404))
                      => /\ Len(Started) = 1
                         /\ Started[1].route = route
                         /\ Len(Started[1].invoked) = 1]_vars

\* With the listeners removed, navigate('/a') has started the chain of '/a'
\* and a later popstate to '/b' has changed the location only.
C11_Witness ==
    /\ listeners = {}
    /\ currentRoute = PathA /\ location = PathB
    /\ \E s \in 1..Len(runs) :
          runs[s].kind = "match" /\ runs[s].route = PathA /\ Len(runs[s].invoked) = 1

(* ------------------- reserved and degenerate patterns ----------------- *)
\* The patterns '', '/404' and '/:x' with the paths '/', '/404' and '/a'.
RouteEmpty == EmptyStr
PathRoot == << "/" >>
Path404 == << "/", "4", "0", "4" >>
EdgePatterns == {RouteEmpty, Route404, RouteX}
EdgePaths == {PathRoot, Path404, PathA}
NextEdge ==
    \/ \E route \in EdgePaths : Navigate(route)
    \/ \E entry \in EdgePaths : Popstate(entry)
    \/ \E route \in EdgePatterns : Get(route, ChainModify)
    \/ \E route \in EdgePatterns : Delete(route)
    \/ Continue
SpecEdge == Init /\ [][NextEdge]_vars

\* The first registered key whose matcher accepts the route.
FirstMatchingKey(rs, route) ==
    rs[CHOOSE k \in MatchingKeys(rs, route) :
          \A j \in MatchingKeys(rs, route) : k <= j].route

C14_NeverZero ==
    [][(Dispatches /\ MatchingKeys(routes, currentRoute') # {}) =>
          /\ Len(Started) = 1
          /\ Started[1].pattern = FirstMatchingKey(routes, currentRoute')
          /\ Len(Started[1].invoked) >= 1]_vars

\* The place of a pattern among the registered keys, 0 when it is absent.
KeyIndex(rs, route) ==
    IF HasKey(rs, route) THEN CHOOSE k \in 1..Len(rs) : rs[k].route = route ELSE 0

\* C13: the keys are kept in the order of their registration (a new pattern
\* goes after all the registered ones, the others keep their order), and a
\* dispatch of a path several patterns match starts the chain of the first
\* of them in that order and no other, whether it is a parameter pattern or
\* a static one.
C13_FirstRegisteredWins ==
    [][/\ \A a, b \in Patterns :
            (HasKey(routes, a) /\ HasKey(routes', a) /\ HasKey(routes', b)
               /\ KeyIndex(routes', b) < KeyIndex(routes', a))
            => (HasKey(routes, b) /\ KeyIndex(routes, b) < KeyIndex(routes, a))
       /\ (Dispatches /\ MatchingKeys(routes, currentRoute') # {}) =>
            /\ Len(Started) = 1
            /\ Started[1].kind = "match"
            /\ Started[1].pattern = FirstMatchingKey(routes, currentRoute')
            /\ Started[1].callbacks =
                  Lookup(routes, FirstMatchingKey(routes, currentRoute')).callbacks]_vars

\* '/:x' was registered before '/a': the dispatch of '/a' runs the chain of
\* '/:x', and no chain of '/a'.
C13_Witness ==
    /\ HasKey(routes, RouteX) /\ HasKey(routes, RouteA)
    /\ KeyIndex(routes, RouteX) < KeyIndex(routes, RouteA)
    /\ currentRoute = PathA
    /\ \E s \in 1..Len(runs) :
          /\ runs[s].route = PathA /\ runs[s].pattern = RouteX
          /\ Len(runs[s].invoked) >= 1
    /\ \A s \in 1..Len(runs) : runs[s].pattern # RouteA

\* C15: the units of one run of the '/404' chain are passed one context
\* object: what a unit of the run stores in it is what every later unit of
\* the run is passed.
C15_FallbackSharedContext ==
    \A s \in 1..Len(runs) :
       runs[s].kind = "404" =>
          \A k \in 1..Len(runs[s].invoked) :
             runs[s].invoked[k].seen.custom = CustomAfter(runs[s].callbacks, k - 1)

\* C16: the context of a dispatch holds the route of that dispatch and what
\* the units of that dispatch have stored so far, and nothing else, also
\* while another dispatch, of the same pattern or not, is in flight.
C16_OwnContext ==
    \A s \in 1..Len(runs) :
       /\ runs[s].req.route = runs[s].route
       /\ runs[s].kind = "match" =>
             /\ runs[s].req.custom = CustomAfter(runs[s].callbacks, runs[s].settled)
             /\ \A k \in 1..Len(runs[s].invoked) :
                   runs[s].invoked[k].seen.route = runs[s].route
       /\ runs[s].kind = "404" =>
             \A k \in 1..Len(runs[s].invoked) :
                /\ runs[s].invoked[k].seen.custom = Undefined
                /\ runs[s].invoked[k].seen.route = runs[s].route

\* Two dispatches that selected '/a' are in flight: the first has stored a
\* value in its context, the context of the second is without it.
C16_Witness ==
    \E s, t \in 1..Len(runs) :
       /\ s < t
       /\ runs[s].pattern = RouteA /\ runs[t].pattern = RouteA
       /\ runs[s].kind = "match" /\ runs[t].kind = "match"
       /\ runs[s].req.custom = Bar
       /\ Len(runs[t].invoked) >= 1
       /\ runs[t].req.custom = Undefined

\* C17: a dispatch leaves the runs in flight as they are, and a run whose
\* unit has settled with a result other than false calls its next unit when
\* its loop resumes, whether or not its route is still the current one.
C17_NoCancellation ==
    [][/\ Dispatches => SubSeq(runs', 1, Len(runs)) = runs
       /\ (Len(queue) > 0 /\ Continue) =>
            LET s == Head(queue)
                r == runs[s]
            IN (/\ r.callbacks[r.idx].result \notin {False, Thrown}
                /\ r.idx < Len(r.callbacks))
               => /\ Len(runs') = Len(runs)
                  /\ Len(runs'[s].invoked) = r.idx + 1
                  /\ runs'[s].invoked[r.idx + 1].unit = r.callbacks[r.idx + 1].id]_vars

\* '/a' was dispatched, then '/b': the chain of '/b' has reached its
\* asynchronous unit, which it can only have done while the first unit of
\* the '/a' chain was unsettled or unresumed, and the '/a' chain has called
\* its second unit.
C17_Witness ==
    \E s, t \in 1..Len(runs) :
       /\ s < t
       /\ runs[s].route = PathA /\ runs[s].callbacks = ChainAsync
       /\ runs[t].route = PathB /\ currentRoute = PathB
       /\ Len(runs[t].invoked) = 3
       /\ Len(runs[s].invoked) >= 2

(* ---------------------------- a hung unit ---------------------------- *)
\* '/a' has a chain whose first unit returns a promise that never settles,
\* '/b' a chain with an asynchronous unit that settles.
ChainHang == << Unit("hang.mw", TRUE, Never, Undefined),
                Unit("hang.cb", FALSE, Undefined, Foo) >>
RouteB == << "/", "b" >>
NextHang ==
    \/ \E route \in {PathA, PathB} : Navigate(route)
    \/ Get(RouteA, ChainHang)
    \/ Get(RouteB, ChainAsync)
    \/ \E s \in 1..MaxRuns : Settle(s)
    \/ Continue
SpecHang == Init /\ [][NextHang]_vars
\* The microtask queue is run to its end, and the promise of a unit that
\* settles does settle.
SpecHangFair ==
    SpecHang /\ WF_vars(Continue) /\ \A s \in 1..MaxRuns : WF_vars(Settle(s))

\* The run waits for a promise that never settles.
Hung(run) ==
    run.status = "pending" /\ run.callbacks[run.idx].result = Never
HungRuns(rs) == SelectSeq(rs, Hung)
IsPrefix(a, b) == Len(a) <= Len(b) /\ SubSeq(b, 1, Len(a)) = a

\* C18: a run that waits for a promise that never settles stays as it is,
\* its later units uncalled; beside it a dispatch of another path starts the
\* chain of the matching pattern, and once no more dispatches arrive every
\* run whose units settle runs to its end, so that only hung runs remain.
C18_HangStallsOwnChain ==
    /\ [][/\ IsPrefix(HungRuns(runs), HungRuns(runs'))
          /\ \A s \in 1..Len(runs) :
                Hung(runs[s]) => Len(runs[s].invoked) < Len(runs[s].callbacks)
          /\ (Dispatches /\ HungRuns(runs) # << >>
                /\ MatchingKeys(routes, currentRoute') # {})
             => /\ Len(Started) = 1
                /\ Started[1].route = currentRoute'
                /\ Len(Started[1].invoked) = 1]_vars
    /\ \/ []<><<Dispatches>>_vars
       \/ <>[](\A s \in 1..Len(runs) : Hung(runs[s]))

\* The chain of '/a' hangs at its first unit; the chain of '/b', dispatched
\* after it, has called its last unit.
C18_Witness ==
    /\ Len(runs) = 2
    /\ Hung(runs[1]) /\ runs[1].route = PathA /\ Len(runs[1].invoked) = 1
    /\ runs[2].route = PathB /\ runs[2].callbacks = ChainAsync
    /\ Len(runs[2].invoked) = 3

(* ------------------------- units that raise --------------------------- *)
\* A chain whose second unit throws, a chain whose first unit returns a
\* promise that is rejected, and a '/404' chain whose first unit throws.
ChainThrow == << Unit("throw.ok", FALSE, Foo, Foo),
                 Unit("throw.mw", FALSE, Thrown, Undefined),
                 Unit("throw.cb", FALSE, Undefined, Bar) >>
ChainReject == << Unit("reject.mw", TRUE, Thrown, Undefined),
                  Unit("reject.cb", FALSE, Undefined, Foo) >>
ChainThrowFirst == << Unit("first.throw", FALSE, Thrown, Undefined),
                      Unit("first.cb", FALSE, Undefined, Undefined) >>
ThrowChains == {ChainThrow, ChainReject}
NextThrow ==
    \/ \E route \in {PathA, PathB} : Navigate(route)
    \/ \E entry \in {PathA, PathB} : Popstate(entry)
    \/ \E callbacks \in ThrowChains : Get(RouteA, callbacks)
    \/ Get(Route404, ChainThrowFirst)
    \/ Delete(RouteA)
    \/ \E s \in 1..MaxRuns : Settle(s)
    \/ Continue
SpecThrow == Init /\ [][NextThrow]_vars

\* C19: no unit of a run is called after a unit of it has raised (thrown, or
\* returned a promise that was rejected): the run ends there; the end of the
\* run leaves the current route as it was, and a navigation to the current
\* route starts no chain.
C19_RaiseAborts ==
    [][/\ \A s \in 1..Len(runs') :
            \A k \in 1..(Len(runs'[s].invoked) - 1) :
               ResultOf(runs'[s].callbacks, runs'[s].invoked[k].unit) # Thrown
       /\ (ended' # ended /\ ended'.rejected) =>
            /\ ResultOf(ended'.callbacks, ended'.invoked[Len(ended'.invoked)]) = Thrown
            /\ \A k \in 1..(Len(ended'.invoked) - 1) :
                  ResultOf(ended'.callbacks, ended'.invoked[k]) # Thrown
            /\ currentRoute' = currentRoute
       /\ \A route \in {PathA, PathB} :
            (Navigate(route) /\ route = currentRoute) =>
               /\ runs' = runs /\ queue' = queue
               /\ lastReq'.deduped]_vars

\* The chain of '/a' has ended at the throw of its second unit, its third
\* unit uncalled; '/a' is still the current route and navigate('/a') has been
\* deduplicated, with no chain in flight.
C19_Witness ==
    /\ ended.rejected
    /\ ended.callbacks = ChainThrow
    /\ ended.invoked = << "throw.ok", "throw.mw" >>
    /\ currentRoute = PathA
    /\ lastReq.deduped /\ lastReq.route = PathA
    /\ runs = << >>

\* C20: what a unit of a chain raises is thrown to the caller of the
\* navigate that started the chain.
C20_EscapesToCaller == ended.rejected => ended.escaped

(* --------------------- registration and dispatch ---------------------- *)
\* C21: get(p, units) called while the current route equals p starts the
\* chain it registers, without a further navigation.
C21_RunsOnRegistration ==
    [][\A p \in Patterns, callbacks \in RouteChains :
          (Get(p, callbacks) /\ p = currentRoute) => Len(Started) = 1]_vars

\* C22: a dispatch of a path no registered pattern matches, with no '/404'
\* registered, starts no chain, calls no unit and ends no run with an
\* exception; it records the path as the current one.
C22_SilentNoMatch ==
    [][(/\ Dispatches
        /\ MatchingKeys(routes, currentRoute') = {}
        /\ ~HasKey(routes, Route404))
       => /\ runs' = runs
          /\ queue' = queue
          /\ ended' = ended
          /\ lastReq' = Remember(currentRoute', FALSE)]_vars

\* '/a/b' was dispatched with '/a' and '/:x' registered and no '/404':
\* nothing is in flight.
C22_Witness ==
    /\ currentRoute = PathAB
    /\ lastReq = Remember(PathAB, FALSE)
    /\ HasKey(routes, RouteA) /\ HasKey(routes, RouteX)
    /\ ~HasKey(routes, Route404)
    /\ runs = << >>

\* The entry of a pattern in the registry: its chain, << >> when absent.
EntryOf(rs, route) ==
    IF HasKey(rs, route) THEN << Lookup(rs, route).callbacks >> ELSE << >>

\* C27: a step that changes the registry (get, delete) changes the entry of
\* one pattern only, leaves the current route, the chains in flight and the
\* queue as they are and calls no unit; a call of runRoute leaves the
\* registry as it is.
C27_Frame ==
    [][/\ routes' # routes =>
            /\ \E p \in Patterns :
                  \A q \in Patterns \ {p} : EntryOf(routes', q) = EntryOf(routes, q)
            /\ currentRoute' = currentRoute
            /\ runs' = runs /\ queue' = queue
            /\ lastReq' = lastReq
       /\ (Dispatches \/ lastReq' # lastReq \/ Len(Started) > 0)
             => routes' = routes /\ lastOp' = lastOp]_vars

\* '/a' was deleted while its chain was in flight for the current route
\* '/a': '/:x' and '/404' are still registered, the run is still there.
C27_Witness ==
    /\ Asked(RouteA).op = "delete" /\ ~HasKey(routes, RouteA)
    /\ HasKey(routes, RouteX) /\ HasKey(routes, Route404)
    /\ currentRoute = PathA
    /\ \E s \in 1..Len(runs) : runs[s].pattern = RouteA /\ Len(runs[s].invoked) = 1

\* C28: a dispatch records its path as the current route whether or not a
\* pattern matches it, and every chain it starts is for that path; a
\* navigation to the current route starts nothing, also when a pattern that
\* matches it has been registered since and no chain has run for it.
C28_RecordedBeforeMatching ==
    [][/\ lastReq' # lastReq /\ ~lastReq'.deduped =>
            /\ currentRoute' = lastReq'.route
            /\ \A k \in 1..Len(Started) : Started[k].route = currentRoute'
       /\ \A route \in Paths :
            (Navigate(route) /\ route = currentRoute) =>
               /\ Len(Started) = 0
               /\ runs' = runs /\ queue' = queue
               /\ currentRoute' = currentRoute]_vars

\* '/a' was dispatched with nothing registered, '/a' was registered, and
\* navigate('/a') was called again: no chain has ever been started.
C28_Witness ==
    /\ lastReq = Remember(PathA, TRUE)
    /\ currentRoute = PathA
    /\ routes = << [route |-> RouteA, callbacks |-> ChainModify] >>
    /\ DOMAIN lastOp = {RouteA}
    /\ runs = << >>
    /\ ended.callbacks = << >>

(* ------------------- what navigate does before it returns ------------- *)
\* C23: a navigate that selects a chain calls the first unit of the chain
\* before it returns: when the call returns the unit has been called, and a
\* synchronous unit has run and has stored what it stores.
C23_FirstUnitSynchronous ==
    [][\A route \in {PathA, PathB} :
          (/\ Navigate(route)
           /\ route # currentRoute
           /\ (MatchingKeys(routes, route) # {} \/ HasKey(routes, Route404)))
          => /\ Len(Started) = 1
             /\ LET r == Started[1]
                IN /\ Len(r.invoked) >= 1
                   /\ r.invoked[1].unit = r.callbacks[1].id
                   /\ ~r.callbacks[1].async =>
                         /\ r.settled >= 1
                         /\ (r.kind = "match" /\ r.callbacks[1].write # Undefined)
                               => r.req.custom = r.callbacks[1].write]_vars

\* navigate('/a') has returned: the one unit of the chain of '/a' has run.
C23_Witness ==
    /\ lastReq = Remember(PathA, FALSE)
    /\ Len(runs) = 1
    /\ runs[1].callbacks = ChainHome
    /\ runs[1].route = PathA
    /\ Len(runs[1].invoked) = 1 /\ runs[1].settled = 1

\* C30: a navigate calls no unit but the first one of the chain it starts:
\* the later units are called after it has returned, and the runs in flight
\* are as they were, so that of two navigations in a row the first unit of
\* the second is called before the second unit of the first.
C30_LaterUnitsAfterReturn ==
    [][\A route \in {PathA, PathB} :
          Navigate(route) =>
             /\ \A k \in 1..Len(Started) : Len(Started[k].invoked) <= 1
             /\ SubSeq(runs', 1, Len(runs)) = runs]_vars

\* navigate('/a') then navigate('/b'), both with chains of two synchronous
\* units: the first unit of each has been called, the second of neither.
C30_Witness ==
    /\ Len(runs) = 2
    /\ runs[1].route = PathA /\ runs[2].route = PathB
    /\ runs[1].callbacks = ChainModify /\ runs[2].callbacks = ChainModify
    /\ Len(runs[1].invoked) = 1 /\ Len(runs[2].invoked) = 1

(* ------------------ a registration during a run ----------------------- *)
\* The run of the step before that is at place s after the step, given the
\* place of the run the step has dropped (0 when it has dropped none).
PlaceAfter(s, dropped) == IF dropped > 0 /\ s > dropped THEN s - 1 ELSE s
Dropped ==
    IF Len(runs') < Len(runs) /\ Len(queue) > 0 THEN Head(queue) ELSE 0

\* C26: a run keeps the chain its dispatch took from the registry: get and
\* delete leave the runs in flight as they are, at every step every run has
\* the units it had, and the unit a run calls is the next one of those;
\* a dispatch takes the chain registered when it starts.
C26_ChainAtDispatch ==
    [][/\ routes' # routes => runs' = runs /\ queue' = queue
       /\ \A s \in 1..Len(runs) :
            s # Dropped =>
               LET before == runs[s]
                   after == runs'[PlaceAfter(s, Dropped)]
               IN /\ after.callbacks = before.callbacks
                  /\ after.pattern = before.pattern
                  /\ Len(after.invoked) >= Len(before.invoked)
                  /\ \A k \in 1..Len(after.invoked) :
                        after.invoked[k].unit = before.callbacks[k].id
       /\ \A k \in 1..Len(Started) :
            /\ HasKey(routes, Started[k].pattern)
            /\ Started[k].callbacks = Lookup(routes, Started[k].pattern).callbacks]_vars

\* The chain of '/a' was replaced while a run of it was in flight: the run
\* has gone on to the third unit of the chain it started with.
C26_Witness ==
    \E s \in 1..Len(runs) :
       /\ runs[s].pattern = RouteA
       /\ runs[s].callbacks = ChainAsync
       /\ Len(runs[s].invoked) = 3
       /\ HasKey(routes, RouteA)
       /\ Lookup(routes, RouteA).callbacks = ChainStop

(* ------------------------- several routers ---------------------------- *)
NextRouters ==
    \/ NextListeners
    \/ NewRouter
SpecRouters == Init /\ [][NextRouters]_vars

\* The sets of click, keyup and popstate listeners installed in the page:
\* that of this router unless removed, and one for every other instance.
ListenerSets == (IF listeners # {} THEN 1 ELSE 0) + (routers - 1)
\* The calls of navigate one event on a router link causes.
NavigateCalls(type, key, href) ==
    IF IsRouterLinkEvent(type, key, href) THEN ListenerSets ELSE 0

\* C24: however many routers have been constructed, at most one set of
\* listeners is installed in the page, so that one click or key press on a
\* router link causes at most one call of navigate.
C24_OneListenerSet ==
    /\ ListenerSets <= 1
    /\ \A type \in EventTypes, key \in EventKeys, href \in LinkTargets :
          NavigateCalls(type, key, href) <= 1

(* ------------------- parameters with a modifier ----------------------- *)
\* '/a/:b?' and '/a/:b+' with the paths '/a/x', '/a/1' and '/a'.
RouteAOpt == << "/", "a", "/", ":", "b", "?" >>
RouteAPlus == << "/", "a", "/", ":", "b", "+" >>
ModifierPatterns == {RouteAOpt, RouteAPlus}
PathAX == << "/", "a", "/", "x" >>
PathA1 == << "/", "a", "/", "1" >>
ModifierPaths == {PathAX, PathA1, PathA}
NextModifiers ==
    \/ \E route \in ModifierPaths : Navigate(route)
    \/ \E entry \in ModifierPaths : Popstate(entry)
    \/ \E route \in ModifierPatterns : Get(route, ChainModify)
    \/ \E route \in ModifierPatterns : Delete(route)
    \/ Continue
SpecModifiers == Init /\ [][NextModifiers]_vars

\* C25: for a parameter with a modifier ('?', '+', '*') and a matching path
\* that has a segment at the index of the parameter in the pattern, the
\* params of the chain hold that segment, converted, under the parameter's
\* name, and not undefined.
C25_ModifiedParams ==
    \A s \in 1..Len(runs) :
       LET r == runs[s]
           toks == Tokens(r.pattern)
           segs == Segments(r.route)
       IN r.kind = "match" =>
             \A i \in 1..Len(toks) :
                (/\ toks[i].kind = "param"
                 /\ toks[i].modifier # ""
                 /\ i <= Len(segs)
                 /\ segs[i] # EmptyStr)
                => /\ toks[i].text \in DOMAIN r.req.params
                   /\ r.req.params[toks[i].text] # Undefined
                   /\ r.req.params[toks[i].text] = ConvertType(StrVal(segs[i]))

(* ----------------- navigation from inside a unit ---------------------- *)
\* Chains of '/a' whose units call navigate: the first unit to '/b', the
\* first unit to '/a' itself, the first unit to '/b' with the result false,
\* the second unit to '/b', the second unit to '/a'.
ChainRedirect == << UnitNav("redir.mw", FALSE, Undefined, Undefined, PathB),
                    Unit("redir.cb", FALSE, Undefined, Undefined) >>
ChainSelf == << UnitNav("self.mw", FALSE, True, Undefined, PathA),
                Unit("self.cb", FALSE, Undefined, Undefined) >>
ChainRedirectStop == << UnitNav("rstop.mw", FALSE, False, Undefined, PathB),
                        Unit("rstop.cb", FALSE, Undefined, Undefined) >>
ChainLate == << Unit("late.mw", FALSE, Undefined, Undefined),
                UnitNav("late.cb", FALSE, Undefined, Undefined, PathB) >>
ChainLateSelf == << Unit("lself.mw", FALSE, Undefined, Undefined),
                    UnitNav("lself.cb", FALSE, Undefined, Undefined, PathA) >>
RedirectChains == {ChainRedirect, ChainSelf, ChainRedirectStop, ChainLate,
                   ChainLateSelf}
NextReentrant ==
    \/ \E route \in {PathA, PathB} : Navigate(route)
    \/ \E entry \in {PathA, PathB} : Popstate(entry)
    \/ \E callbacks \in RedirectChains : Get(RouteA, callbacks)
    \/ Get(RouteB, ChainModify)
    \/ \E route \in {RouteA, RouteB} : Delete(route)
    \/ Continue
SpecReentrant == Init /\ [][NextReentrant]_vars

\* The runs of the next state whose unit, called in this step, calls navigate.
RedirectingRuns ==
    {j \in 1..Len(runs') :
       /\ Len(runs') >= Len(runs)
       /\ Redirects(runs'[j])
       /\ \/ j > Len(runs)
          \/ /\ j <= Len(runs)
             /\ Len(runs'[j].invoked) = Len(runs[j].invoked) + 1}
\* this.currentRoute when the unit of run j was called: the route of a
\* dispatch that has just begun, the recorded route for a chain that resumed.
CurrentAtCall(j) == IF j > Len(runs) THEN runs'[j].route ELSE currentRoute
\* Where the run of a nested dispatch by the unit of run j would be.
NestedPlace(j) == IF j > Len(runs) THEN j + 1 ELSE Len(runs) + 1
\* The chains a dispatch of the route begins that have a unit to call.
ChainsWithUnits(route) ==
    SelectSeq(StartedChains(routes, route), LAMBDA r : Len(r.callbacks) > 0)

\* navigate with the current route from inside a unit begins nothing.
SelfNavigateBeginsNothing(j) ==
    LET target == runs'[j].callbacks[runs'[j].idx].nav
    IN target = CurrentAtCall(j) =>
          /\ Len(runs') < NestedPlace(j)
          /\ currentRoute' = target
          /\ location' = target
          /\ lastReq' = Remember(target, TRUE)

\* navigate(Q) from inside a unit begins the dispatch of Q in the same step:
\* the first unit of Q's chain has been called, the next unit of the outer
\* chain has not, and the outer run stays in flight.
RedirectBeginsAtOnce(j) ==
    LET target == runs'[j].callbacks[runs'[j].idx].nav
        k == NestedPlace(j)
        started == ChainsWithUnits(target)
    IN target # CurrentAtCall(j) =>
          /\ runs'[j].invoked[Len(runs'[j].invoked)].unit
                = runs'[j].callbacks[runs'[j].idx].id
          /\ runs'[j].status \in {"awaiting", "pending"}
          /\ IF Len(started) > 0
             THEN /\ k <= Len(runs')
                  /\ runs'[k].route = target
                  /\ runs'[k].callbacks = started[1].callbacks
                  /\ Len(runs'[k].invoked) = 1
                  /\ runs'[k].invoked[1].unit = started[1].callbacks[1].id
                  /\ (~Redirects(runs'[k])
                        \/ runs'[k].callbacks[1].nav = target)
                       => /\ currentRoute' = target
                          /\ location' = target
             ELSE /\ Len(runs') < k
                  /\ currentRoute' = target
                  /\ location' = target
                  /\ lastReq' = Remember(target, FALSE)

\* The chain whose unit called navigate goes on when its loop resumes,
\* whatever the current route is, unless the result of the unit is false.
OuterContinues ==
    LET s == Head(queue)
        run == runs[s]
        u == run.callbacks[run.idx]
    IN (Len(queue) > 0 /\ HasNavigate(u)) =>
          IF StrictEquals(u.result, False) \/ run.idx = Len(run.callbacks)
          THEN /\ Len(runs') = Len(runs) - 1
               /\ ended'.callbacks = run.callbacks
               /\ ended'.invoked = [i \in 1..Len(run.invoked) |-> run.invoked[i].unit]
          ELSE /\ Len(runs') >= Len(runs)
               /\ Len(runs'[s].invoked) = Len(run.invoked) + 1
               /\ runs'[s].invoked[Len(run.invoked) + 1].unit
                     = run.callbacks[run.idx + 1].id

====
